---- MODULE Spec2Model ----
(***************************************************************************)
(* Model of src/generate_vehicles.py: the synthetic border-crossing        *)
(* generator.  main() builds the country weights and the three standout    *)
(* pools once, then for every day draws the day's targets, generates the   *)
(* two streams (baseline, commuters, chilled, smugglers, sort,             *)
(* misplacement), rewrites the country codes and hands the streams to the  *)
(* sinks.                                                                  *)
(*                                                                         *)
(* The numpy generator is modelled by nondeterministic choice: every call  *)
(* of rng.<method> is an \E over a finite sample of the values the call    *)
(* can return (the ...Sample definitions).  Probabilities and rng.random() *)
(* values are integers in units of 1/10000.                                *)
(***************************************************************************)
EXTENDS Integers, Sequences, FiniteSets, TLC

VARIABLES
    args,           \* parsed command line (main, lines 502-550)
    pc,             \* position of main / generate_day_events
    d,              \* loop variable of "for d in range(days)"
    weights,        \* build_country_weights result (country -> weight)
    commuters,      \* standout pools (make_standout_pool)
    chilled,
    smugglers,
    in_target,      \* per-day targets (main, lines 600-601)
    out_target,
    incoming,       \* the day's two frames
    outgoing,
    extra_in_rows,  \* generate_day_events, lines 405-406
    extra_out_rows,
    loop,           \* locals of the chilled / smuggler loops (active, v, k, i, secs, dirs)
    idx,            \* apply_ingest_misplacements: positions still to process
    new_idx,        \* apply_ingest_misplacements: their swap targets
    orig,           \* history: the frame as passed to apply_ingest_misplacements
    perm,           \* history: perm[p] = input position of the row now at position p
    sorted_in,      \* history: the frames as the sort step produced them
    sorted_out,
    rngLog,         \* history: the phases that called the generator, in call order
    written,        \* number of days handed to the sinks
    iso1_calls,     \* history: calls of apply_iso1_codes on the day's frames, per stream
    seq_n,          \* sequential_seconds: argument n
    gaps,           \* sequential_seconds: the exponential gaps drawn
    secs            \* sequential_seconds: the returned array

vars == <<args, pc, d, weights, commuters, chilled, smugglers, in_target, out_target,
          incoming, outgoing, extra_in_rows, extra_out_rows, loop, idx, new_idx,
          orig, perm, sorted_in, sorted_out, rngLog, written, iso1_calls,
          seq_n, gaps, secs>>

seqVars == <<seq_n, gaps, secs>>
misVars == <<idx, new_idx, orig, perm>>
poolVars == <<weights, commuters, chilled, smugglers>>

-----------------------------------------------------------------------------
(* Bounds of the model *)

MaxDays == 2
MaxTarget == 1
MaxCommuters == 2
MaxChilled == 1
MaxSmugglers == 1
MaxRunPerDay == 1
MaxRunOffset == 1
MaxLoad == 2
MaxPerDay == 2
MaxOffset == 2
MaxLen == 3
MaxSeqLen == 4
MaxGap == 2

-----------------------------------------------------------------------------
(* Tables of the program *)

VEHICLE_TYPES == <<"passenger_car", "delivery_van", "truck", "motorcycle", "bus", "other">>

COLOURS == <<"white", "black", "silver", "blue", "red", "grey", "green", "brown", "yellow">>

BRANDS_BY_TYPE ==
    [passenger_car |-> <<"VW", "BMW", "Mercedes", "Audi", "Skoda", "Toyota", "Renault",
                         "Peugeot", "Fiat", "Ford", "Tesla", "Opel", "Seat", "Hyundai">>,
     delivery_van |-> <<"VW", "Mercedes", "Ford", "Renault", "Fiat", "Peugeot", "Iveco">>,
     truck |-> <<"Volvo", "Scania", "MAN", "DAF", "Mercedes", "Iveco">>,
     motorcycle |-> <<"Yamaha", "Honda", "Kawasaki", "BMW", "Suzuki", "Ducati", "KTM">>,
     bus |-> <<"MAN", "Mercedes", "Volvo", "Iveco", "Scania">>,
     other |-> <<"Generic">>]

CROSSINGS ==
    << <<"Basel", "DE">>, <<"Rheinfelden", "DE">>, <<"Kreuzlingen", "DE">>,
       <<"Schaffhausen", "DE">>, <<"Bargen", "DE">>,
       <<"Geneve", "FR">>, <<"Bardonnex", "FR">>, <<"Vallorbe", "FR">>, <<"Boncourt", "FR">>,
       <<"Chiasso", "IT">>, <<"Brusata (Mendrisio)", "IT">>, <<"Brissago", "IT">>,
       <<"St. Margrethen", "AT">>, <<"Au (SG)", "AT">>,
       <<"Schaanwald", "LI">>, <<"Bendern", "LI">> >>

CorridorCountries == {CROSSINGS[i][2] : i \in 1..Len(CROSSINGS)}

CrossingIdx(cc) == {i \in 1..Len(CROSSINGS) : CROSSINGS[i][2] = cc}

CORRIDOR_TO_CROSSINGS(cc) ==
    [n \in 1..Cardinality(CrossingIdx(cc)) |->
        CROSSINGS[CHOOSE i \in CrossingIdx(cc) :
                     Cardinality({j \in CrossingIdx(cc) : j < i}) = n - 1][1]]

ALL_CROSSINGS == [i \in 1..Len(CROSSINGS) |-> CROSSINGS[i][1]]

NEAR == <<"DE", "FR", "IT", "AT", "LI">>
MID == <<"NL", "BE", "LU", "DK", "CZ", "PL", "SK", "HU", "SI", "HR">>
FAR == <<"ES", "PT", "IE", "SE", "FI", "EE", "LV", "LT", "RO", "BG", "GR", "CY", "MT">>
BALKAN == <<"AL", "BA", "RS", "ME", "MK">>
OTHER_EUROPE == <<"NO", "IS", "GB", "UA", "MD", "BY", "TR", "SM", "VA", "MC", "AD">>

Range(s) == {s[i] : i \in 1..Len(s)}

EURO_COUNTRIES == Range(NEAR) \cup Range(MID) \cup Range(FAR) \cup Range(BALKAN)
                    \cup Range(OTHER_EUROPE)

ISO1_MAP ==
    [c \in EURO_COUNTRIES |->
        CASE c \in {"DE", "DK"} -> "D"
          [] c \in {"FR", "FI"} -> "F"
          [] c \in {"IT", "IE", "IS"} -> "I"
          [] c \in {"AT", "AL", "AD"} -> "A"
          [] c \in {"LI", "LU", "LV", "LT"} -> "L"
          [] c \in {"NL", "NO"} -> "N"
          [] c \in {"BE", "BG", "BA", "BY"} -> "B"
          [] c \in {"CZ", "CY"} -> "C"
          [] c \in {"PL", "PT"} -> "P"
          [] c \in {"SK", "SI", "SE", "SM"} -> "S"
          [] c \in {"HU", "HR"} -> "H"
          [] c \in {"ES", "EE"} -> "E"
          [] c \in {"RO", "RS"} -> "R"
          [] c \in {"GR", "GB"} -> "G"
          [] c \in {"MT", "ME", "MK", "MD", "MC"} -> "M"
          [] c = "UA" -> "U"
          [] c = "TR" -> "T"
          [] c = "VA" -> "V"]

DaySpan == 86399
DaySeconds == DaySpan + 1

-----------------------------------------------------------------------------
(* Samples of the generator's outputs *)

\* rng.random(): values of [0, 1) in units of 1/10000, 0.0 included
RandomSample == {0, 5000}
\* rng.choice(list): the element drawn
Choice(list) == {list[1]}
\* rng.choice(countries, p=weights) of baseline_events
CountrySample == {"DE", "GR"}
\* the two letters and the number of random_plate
LetterSample == {"AB"}
DigitSample == {42}
\* rng.uniform(lo, hi): lo + u * (hi - lo) / 2 for u in UniformSample
UniformSample == {0, 1}
\* rng.integers(lo, hi): both ends of the range lo .. hi-1
Ends(lo, hi) == {lo, hi - 1}
\* rng.integers(0, 86400) of the chilled and of the smuggler schedule
ChilledSecsSample == {0}
SmugglerSecsSample == {DaySpan}
\* rng.integers(6, 20) of the smuggler schedule
SmugglerKSample == {6}
\* rng.uniform(-j, j) for the default --day-jitter 0.12, in units of 1/100
JitterSample == {-12, 0, 11}
\* --missing-prob (default 0.015)
MissingProbSample == {0, 150}
\* weekday of --start-date (0 = Monday)
StartWeekdaySample == {4, 6}

-----------------------------------------------------------------------------
(* Helpers on sequences *)

RECURSIVE SumSeq(_)
SumSeq(s) == IF s = <<>> THEN 0 ELSE Head(s) + SumSeq(Tail(s))

\* the sub-sequence of s at the positions where keep is TRUE
RECURSIVE Mask(_, _)
Mask(s, keep) ==
    IF s = <<>> THEN <<>>
    ELSE (IF Head(keep) THEN <<Head(s)>> ELSE <<>>) \o Mask(Tail(s), Tail(keep))

RemoveAt(s, i) == SubSeq(s, 1, i - 1) \o SubSeq(s, i + 1, Len(s))

Occurrences(s, x) == Cardinality({i \in 1..Len(s) : s[i] = x})

SameRows(s, t) ==
    /\ Len(s) = Len(t)
    /\ \A x \in Range(s) \cup Range(t) : Occurrences(s, x) = Occurrences(t, x)

IsSorted(df) == \A i \in 1..(Len(df) - 1) : df[i].ts <= df[i + 1].ts

Min(a, b) == IF a < b THEN a ELSE b
Max(a, b) == IF a > b THEN a ELSE b
Abs(a) == IF a < 0 THEN -a ELSE a

-----------------------------------------------------------------------------
(* Pure functions of the program *)

\* a country code of one character (the codes of the tables have two)
\* to_iso1: falsy and one-character codes pass through, mapped codes are looked
\* up, any other code gives its first character
FirstChar(country) ==
    CASE country = "XK" -> "X"
      [] OTHER -> country

to_iso1(country) ==
    IF country = "" THEN country
    ELSE IF Len(country) = 1 THEN country
    ELSE IF country \in DOMAIN ISO1_MAP THEN ISO1_MAP[country]
    ELSE FirstChar(country)

\* random_plate: f"{country}-{letters}{digits:04d}", kept as its three parts
random_plate(country, letters, digits) == <<country, letters, digits>>

\* a rewrite of the country column that leaves the plate as it was
Iso1RowKeepPlate(row) == [row EXCEPT !.country_of_registration = to_iso1(@)]

\* apply_iso1_codes on one row: the code, and the plate's part before the hyphen
Iso1Row(row) ==
    [row EXCEPT !.country_of_registration = to_iso1(@),
                !.license_plate = <<to_iso1(row.country_of_registration)>> \o Tail(@)]

apply_iso1_codes(df) == [i \in 1..Len(df) |-> Iso1Row(df[i])]

\* choose_crossing: the list rng.choice draws from
CrossingList(country) ==
    IF country \in CorridorCountries THEN CORRIDOR_TO_CROSSINGS(country)
    ELSE ALL_CROSSINGS

choose_crossing(country) == Choice(CrossingList(country))

\* np.cumsum
CumSum(g) == [i \in 1..Len(g) |-> SumSeq(SubSeq(g, 1, i))]

\* resolution of the quotient cum / cum[-1] (a float in [0, 1])
Resolution == 2 ^ 14

\* cum / cum[-1], rounded to the nearest representable value
Quotient(a, b) == (2 * a * Resolution + b) \div (2 * b)

\* a scale of 86400 instead of 86399
ScaleToDayFullDay(q) == (q * DaySeconds) \div Resolution

\* (cum / cum[-1]) * 86399, then astype(int)
ScaleToDay(q) == (q * DaySpan) \div Resolution

\* sequential_seconds(rng, n), gaps being the n exponential draws
sequential_seconds(n, g) ==
    LET cum == CumSum(g)
    IN  IF n <= 0 THEN <<>>
        ELSE IF cum[n] = 0 THEN [i \in 1..n |-> 0]
        ELSE [i \in 1..n |-> ScaleToDay(Quotient(cum[i], cum[n]))]

\* days of 86399 seconds
TimestampShortDay(day, s) == day * DaySpan + s

\* day_start + timedelta(seconds=s) for the day of index day
Timestamp(day, s) == day * DaySeconds + s

\* day_start.weekday() of the day of index day
Weekday(start_wd, day) == (start_wd + day) % 7

\* Saturday taken for a working day
IsWeekdayWithSaturday(wd) == wd <= 5

IsWeekday(wd) == wd <= 4

Identity(cc, plate, vtype, colour, brand) ==
    [country_of_registration |-> cc, license_plate |-> plate, vehicle_type |-> vtype,
     colour |-> colour, brand |-> brand]

\* one row of a frame; src and vid record which injector emitted the row and,
\* for a pool vehicle, its position in the pool (they are no columns of the frame)
Row(ts, v, loc, src, vid) ==
    [ts |-> ts, country_of_registration |-> v.country_of_registration,
     license_plate |-> v.license_plate, vehicle_type |-> v.vehicle_type,
     colour |-> v.colour, brand |-> v.brand, location_of_crossing |-> loc,
     src |-> src, vid |-> vid]

\* mk_vehicles(cc_arr, vtype): the frames it can return
mk_vehicles(cc_arr, vtype) ==
    LET n == Len(cc_arr)
    IN  { [i \in 1..n |-> Identity(cc_arr[i], random_plate(cc_arr[i], letters[i], digits[i]),
                                   vtype, colours[i], brands[i])] :
            letters \in [1..n -> LetterSample], digits \in [1..n -> DigitSample],
            colours \in [1..n -> Choice(COLOURS)],
            brands \in [1..n -> Choice(BRANDS_BY_TYPE[vtype])] }

\* one baseline row without its timestamp: country, plate, type, colour, brand, crossing
BaselineDraws(w) ==
    UNION { UNION { { [v |-> Identity(cc, random_plate(cc, letters, digits), vt, colour, brand),
                       loc |-> loc] :
                        letters \in LetterSample, digits \in DigitSample,
                        colour \in Choice(COLOURS), brand \in Choice(BRANDS_BY_TYPE[vt]),
                        loc \in choose_crossing(cc) } :
                    vt \in Choice(VEHICLE_TYPES) } :
            cc \in {c \in CountrySample : w[c] > 0} }

\* baseline_events(n): the frames it can return on the day of index day
baseline_events(n, day, w) ==
    { [i \in 1..n |->
          Row(Timestamp(day, sequential_seconds(n, g)[i]), r[i].v, r[i].loc, "baseline", 0)] :
        r \in [1..n -> BaselineDraws(w)], g \in [1..n -> 0..MaxGap] }

\* no sort at all
SortValuesNone(df) == {df}

\* a sort in descending order
SortValuesDescending(df) ==
    {t \in [1..Len(df) -> Range(df)] :
        /\ \A x \in Range(df) : Cardinality({i \in 1..Len(df) : t[i] = x})
                                   = Cardinality({i \in 1..Len(df) : df[i] = x})
        /\ \A i \in 1..(Len(df) - 1) : t[i].ts >= t[i + 1].ts}

\* sort_values("ts"): every arrangement of the rows in ascending ts order (the
\* default sort kind is not a stable one, rows of equal ts may come out in any order)
RECURSIVE SortValues(_)
SortValues(df) ==
    IF df = <<>> THEN {<<>>}
    ELSE LET firsts == {i \in 1..Len(df) :
                          /\ \A j \in 1..Len(df) : df[i].ts <= df[j].ts
                          /\ \A j \in 1..(i - 1) : df[j] # df[i]}
         IN  UNION { { <<df[i]>> \o t : t \in SortValues(RemoveAt(df, i)) } : i \in firsts }

\* the arrangement a stable sort by ts gives
RECURSIVE StableSort(_)
StableSort(df) ==
    IF df = <<>> THEN <<>>
    ELSE LET i == CHOOSE i \in 1..Len(df) :
                     /\ \A j \in 1..Len(df) : df[i].ts <= df[j].ts
                     /\ \A j \in 1..(i - 1) : df[j].ts > df[i].ts
         IN  <<df[i]>> \o StableSort(RemoveAt(df, i))

\* apply_ingest_misplacements, line 244: the early return
MisplaceNoop(df, per_day, max_offset) == per_day <= 0 \/ max_offset <= 0 \/ df = <<>>

\* rng.choice(df.index, size=n, replace=False): n distinct positions, in draw order
IdxDraws(len, n) ==
    {s \in [1..n -> 0..(len - 1)] : \A a, b \in 1..n : a # b => s[a] # s[b]}

\* an upper end one too high
OffsetDrawsWide(max_offset) == (-max_offset)..(max_offset + 1)

\* rng.integers(-max_offset, max_offset + 1)
OffsetDraws(max_offset) == (-max_offset)..max_offset

\* np.clip(x, lo, hi)
Clip(x, lo, hi) == IF x < lo THEN lo ELSE IF x > hi THEN hi ELSE x

\* a swap that writes only one of the two rows
SwapRowsOneWay(df, i, j) == [df EXCEPT ![i + 1] = df[j + 1]]

\* df.iloc[[i, j]] = df.iloc[[j, i]].to_numpy(), positions counted from 0
SwapRows(df, i, j) == [df EXCEPT ![i + 1] = df[j + 1], ![j + 1] = df[i + 1]]

\* the parity test the other way round
ChilledDirsFlipped(k) == [n \in 1..k |-> IF (n - 1) % 2 = 1 THEN "incoming" ELSE "outgoing"]

\* ["incoming" if i % 2 == 0 else "outgoing" for i in range(k)]
ChilledDirs(k) == [n \in 1..k |-> IF (n - 1) % 2 = 0 THEN "incoming" ELSE "outgoing"]

\* rng.integers(2, 7) of the chilled schedule
ChilledKDraws == 2..6

\* rng.random() < 0.35, rng.random() < 0.25
ChilledActive(r) == r < 3500
SmugglerActive(r) == r < 2500

\* the commuter keep mask: rng.random() > missing_prob
CommuterKeep(r, missing_prob) == r > missing_prob

\* the chilled drop test: rng.random() < missing_prob
ChilledDrop(r, missing_prob) == r < missing_prob

\* the smuggler drop test: rng.random() < missing_prob * 1.2
SmugglerDrop(r, missing_prob) == 10 * r < 12 * missing_prob

\* each pool built completely before the next one
PoolCallsGrouped ==
    <<"pool_commuters.country", "pool_commuters.vehicles", "pool_chilled.country",
      "pool_chilled.vehicles", "pool_smugglers.country", "pool_smugglers.vehicles">>

\* the phases of generator calls, in the order make_standout_pool makes them
PoolCalls ==
    <<"pool_commuters.country", "pool_chilled.country", "pool_smugglers.country",
      "pool_commuters.vehicles", "pool_chilled.vehicles", "pool_smugglers.vehicles">>

\* the log with one more call of the phase
Logged(log, phase) ==
    IF log # <<>> /\ log[Len(log)] = phase THEN log ELSE Append(log, phase)

-----------------------------------------------------------------------------
(* State *)

\* no call of apply_iso1_codes yet on the day's frames
NoCalls == [incoming |-> 0, outgoing |-> 0]

NoLoop == [active |-> <<>>, v |-> 0, k |-> 0, i |-> 0, secs |-> <<>>, dirs |-> <<>>]

\* what a command line switches on: baseline traffic, each pool, the
\* misplacement step, a second day
Load(a) ==
    (IF a.avg_in_per_day + a.avg_out_per_day > 0 THEN 1 ELSE 0)
    + (IF a.n_commuters > 0 THEN 1 ELSE 0)
    + (IF a.n_chilled > 0 THEN 1 ELSE 0)
    + (IF a.n_smugglers > 0 THEN 1 ELSE 0)
    + (IF a.misplace_per_day > 0 /\ a.misplace_max_offset > 0 THEN 1 ELSE 0)
    + (IF a.days > 1 THEN 1 ELSE 0)

\* the command lines explored: at most MaxLoad of these are switched on in one run
ArgSpace ==
    { a \in [avg_in_per_day : 0..MaxTarget, avg_out_per_day : 0..MaxTarget,
             n_commuters : 0..MaxCommuters, n_chilled : 0..MaxChilled,
             n_smugglers : 0..MaxSmugglers, missing_prob : MissingProbSample,
             misplace_per_day : 0..MaxRunPerDay, misplace_max_offset : 0..MaxRunOffset,
             start_wd : StartWeekdaySample, days : 1..MaxDays] :
        Load(a) <= MaxLoad }

\* the command lines of the runs of one function
UnitArgs(per_day, max_offset) ==
    [avg_in_per_day : {0}, avg_out_per_day : {0}, n_commuters : {0}, n_chilled : {0},
     n_smugglers : {0}, missing_prob : {0}, misplace_per_day : per_day,
     misplace_max_offset : max_offset, start_wd : {0}, days : {1}]

InitCommon ==
    /\ d = 0
    /\ weights = <<>>
    /\ commuters = <<>>
    /\ chilled = <<>>
    /\ smugglers = <<>>
    /\ in_target = 0
    /\ out_target = 0
    /\ extra_in_rows = <<>>
    /\ extra_out_rows = <<>>
    /\ loop = NoLoop
    /\ idx = <<>>
    /\ new_idx = <<>>
    /\ orig = <<>>
    /\ perm = <<>>
    /\ sorted_in = <<>>
    /\ sorted_out = <<>>
    /\ rngLog = <<>>
    /\ written = 0
    /\ iso1_calls = NoCalls
    /\ gaps = <<>>
    /\ secs = <<>>

Init ==
    /\ InitCommon
    /\ args \in ArgSpace
    /\ pc = "weights"
    /\ incoming = <<>>
    /\ outgoing = <<>>
    /\ seq_n = 0

-----------------------------------------------------------------------------
(* main: set-up *)

Uniform(lo, hi, u) == lo + (u * (hi - lo)) \div 2

\* build_country_weights: weights in units of 1/10000 before the division by
\* their sum, and the sum
CountryWeight(c, u) ==
    CASE c = "DE" -> 4200
      [] c = "FR" -> 1800
      [] c = "IT" -> 2000
      [] c = "AT" -> 800
      [] c = "LI" -> 200
      [] c \in Range(MID) -> Uniform(50, 200, u)
      [] c = "GR" -> Uniform(50, 200, u)
      [] c = "SE" -> Uniform(100, 200, u)
      [] c \in Range(FAR) \ {"GR", "SE"} -> Uniform(30, 150, u)
      [] c = "AL" -> Uniform(100, 300, u)
      [] c \in Range(BALKAN) \ {"AL"} -> Uniform(50, 200, u)
      [] c \in Range(OTHER_EUROPE) -> Uniform(20, 120, u)

BuildCountryWeights ==
    /\ pc = "weights"
    /\ \E u \in UniformSample : weights' = [c \in EURO_COUNTRIES |-> CountryWeight(c, u)]
    /\ rngLog' = Logged(rngLog, "weights")
    /\ pc' = "pool"
    /\ UNCHANGED <<args, d, commuters, chilled, smugglers, in_target, out_target, incoming,
                   outgoing, extra_in_rows, extra_out_rows, loop, misVars, sorted_in,
                   sorted_out, written, iso1_calls, seqVars>>

near_countries == <<"DE", "FR", "IT", "AT", "LI">>
chilled_countries == <<"IT", "FR", "DE", "AT">>
smuggle_pool == <<"DE", "FR", "IT", "AT", "AL", "RS", "BA", "RO", "BG">>

MakeStandoutPool ==
    /\ pc = "pool"
    /\ \E commuter_country \in [1..args.n_commuters -> Choice(near_countries)],
          chilled_country \in [1..args.n_chilled -> Choice(chilled_countries)],
          smuggle_country \in [1..args.n_smugglers -> Choice(smuggle_pool)] :
          /\ commuters' \in mk_vehicles(commuter_country, "passenger_car")
          /\ chilled' \in mk_vehicles(chilled_country, "truck")
          /\ smugglers' \in mk_vehicles(smuggle_country, "delivery_van")
    /\ rngLog' = rngLog \o PoolCalls
    /\ pc' = "day"
    /\ UNCHANGED <<args, d, weights, in_target, out_target, incoming, outgoing,
                   extra_in_rows, extra_out_rows, loop, misVars, sorted_in, sorted_out,
                   written, iso1_calls, seqVars>>

\* int(avg * (1 + rng.uniform(-j, j))), u in units of 1/100
Jittered(avg, u) == (avg * (100 + u)) \div 100

\* main, lines 595-601: the next day's targets
DayBegin ==
    /\ pc = "day"
    /\ d < args.days
    /\ \E u \in JitterSample : in_target' = Jittered(args.avg_in_per_day, u)
    /\ \E u \in JitterSample : out_target' = Jittered(args.avg_out_per_day, u)
    /\ rngLog' = Logged(rngLog, "jitter")
    /\ incoming' = <<>>
    /\ outgoing' = <<>>
    /\ extra_in_rows' = <<>>
    /\ extra_out_rows' = <<>>
    /\ sorted_in' = <<>>
    /\ sorted_out' = <<>>
    /\ idx' = <<>>
    /\ new_idx' = <<>>
    /\ orig' = <<>>
    /\ perm' = <<>>
    /\ pc' = "baseline_in"
    /\ iso1_calls' = NoCalls
    /\ UNCHANGED <<args, d, poolVars, loop, written, seqVars>>

Finish ==
    /\ pc = "day"
    /\ d >= args.days
    /\ pc' = "done"
    /\ UNCHANGED <<args, d, poolVars, in_target, out_target, incoming, outgoing,
                   extra_in_rows, extra_out_rows, loop, misVars, sorted_in, sorted_out,
                   rngLog, written, iso1_calls, seqVars>>

-----------------------------------------------------------------------------
(* generate_day_events *)

BaselineIncoming ==
    /\ pc = "baseline_in"
    /\ incoming' \in baseline_events(in_target, d, weights)
    /\ rngLog' = Logged(rngLog, "baseline_in")
    /\ pc' = "baseline_out"
    /\ UNCHANGED <<args, d, poolVars, in_target, out_target, outgoing, extra_in_rows,
                   extra_out_rows, loop, misVars, sorted_in, sorted_out,
                   written, iso1_calls, seqVars>>

BaselineOutgoing ==
    /\ pc = "baseline_out"
    /\ outgoing' \in baseline_events(out_target, d, weights)
    /\ rngLog' = Logged(rngLog, "baseline_out")
    /\ pc' = "commuter"
    /\ UNCHANGED <<args, d, poolVars, in_target, out_target, incoming, extra_in_rows,
                   extra_out_rows, loop, misVars, sorted_in, sorted_out,
                   written, iso1_calls, seqVars>>

\* rng.integers(5 * 3600, 10 * 3600), rng.integers(15 * 3600, 20 * 3600)
CommuterInSecs == Ends(5 * 3600, 10 * 3600)
CommuterOutSecs == Ends(15 * 3600, 20 * 3600)

\* in_df / out_df of lines 421-432: the kept commuters with their ts and crossing
CommuterRows(pool, day, s, keep, locs) ==
    Mask([i \in 1..Len(pool) |-> Row(Timestamp(day, s[i]), pool[i], locs[i], "commuter", i)],
         keep)

\* choose_crossing for every vehicle of a pool
CrossingDraws(pool) ==
    { l \in [1..Len(pool) -> UNION {choose_crossing(pool[i].country_of_registration) :
                                      i \in 1..Len(pool)}] :
        \A i \in 1..Len(pool) : l[i] \in choose_crossing(pool[i].country_of_registration) }

\* lines 409-435
CommuterInject ==
    /\ pc = "commuter"
    /\ IF IsWeekday(Weekday(args.start_wd, d))
       THEN LET n == Len(commuters)
            IN  \E in_secs \in [1..n -> CommuterInSecs],
                   out_secs \in [1..n -> CommuterOutSecs],
                   r_in \in [1..n -> RandomSample],
                   r_out \in [1..n -> RandomSample],
                   locs_in \in CrossingDraws(commuters),
                   locs_out \in CrossingDraws(commuters) :
                   LET keep_in == [i \in 1..n |-> CommuterKeep(r_in[i], args.missing_prob)]
                       keep_out == [i \in 1..n |-> CommuterKeep(r_out[i], args.missing_prob)]
                   IN  /\ incoming' = incoming \o CommuterRows(commuters, d, in_secs, keep_in,
                                                               locs_in)
                       /\ outgoing' = outgoing \o CommuterRows(commuters, d, out_secs, keep_out,
                                                               locs_out)
                       /\ rngLog' = Logged(rngLog, "commuter")
       ELSE UNCHANGED <<incoming, outgoing, rngLog>>
    /\ pc' = "chilled"
    /\ UNCHANGED <<args, d, poolVars, in_target, out_target, extra_in_rows, extra_out_rows,
                   loop, misVars, sorted_in, sorted_out, written, iso1_calls, seqVars>>

\* the pool positions where the mask is TRUE, in pool order (pool.loc[active])
ActiveIndices(mask) == Mask([i \in 1..Len(mask) |-> i], mask)

\* lines 438-440
ChilledBegin ==
    /\ pc = "chilled"
    /\ IF Len(chilled) > 0
       THEN \E r \in [1..Len(chilled) -> RandomSample] :
               /\ loop' = [NoLoop EXCEPT
                             !.active = ActiveIndices([i \in 1..Len(chilled) |->
                                                          ChilledActive(r[i])])]
               /\ rngLog' = Logged(rngLog, "chilled")
               /\ pc' = "chilled_vehicle"
       ELSE /\ pc' = "smuggler"
            /\ UNCHANGED <<loop, rngLog>>
    /\ UNCHANGED <<args, d, poolVars, in_target, out_target, incoming, outgoing,
                   extra_in_rows, extra_out_rows, misVars, sorted_in, sorted_out,
                   written, iso1_calls,
                   seqVars>>

\* lines 441-444: the next active vehicle, its k, secs and dirs
ChilledVehicle ==
    /\ pc = "chilled_vehicle"
    /\ IF loop.active = <<>>
       THEN /\ loop' = NoLoop
            /\ pc' = "smuggler"
       ELSE \E k \in ChilledKDraws : \E s \in [1..k -> ChilledSecsSample] :
               /\ loop' = [active |-> Tail(loop.active), v |-> Head(loop.active), k |-> k,
                           i |-> 0, secs |-> s, dirs |-> ChilledDirs(k)]
               /\ pc' = "chilled_event"
    /\ UNCHANGED <<args, d, poolVars, in_target, out_target, incoming, outgoing,
                   extra_in_rows, extra_out_rows, misVars, sorted_in, sorted_out, rngLog,
                   written, iso1_calls, seqVars>>

\* one turn of "for s, ddir in zip(secs, dirs)" for vehicle v of the pool: the
\* row is dropped, or appended to the list of its direction
EmitEvent(pool, src, dropped) ==
    LET v == pool[loop.v]
        ddir == loop.dirs[loop.i + 1]
    IN  /\ loop' = [loop EXCEPT !.i = @ + 1]
        /\ IF dropped
           THEN UNCHANGED <<extra_in_rows, extra_out_rows>>
           ELSE \E loc \in choose_crossing(v.country_of_registration) :
                   LET row == Row(Timestamp(d, loop.secs[loop.i + 1]), v, loc, src, loop.v)
                   IN  IF ddir = "incoming"
                       THEN /\ extra_in_rows' = Append(extra_in_rows, row)
                            /\ UNCHANGED extra_out_rows
                       ELSE /\ extra_out_rows' = Append(extra_out_rows, row)
                            /\ UNCHANGED extra_in_rows

\* lines 445-460
ChilledEvent ==
    /\ pc = "chilled_event"
    /\ IF loop.i >= loop.k
       THEN /\ pc' = "chilled_vehicle"
            /\ UNCHANGED <<loop, extra_in_rows, extra_out_rows>>
       ELSE /\ \E r \in RandomSample :
                 EmitEvent(chilled, "chilled", ChilledDrop(r, args.missing_prob))
            /\ pc' = pc
    /\ UNCHANGED <<args, d, poolVars, in_target, out_target, incoming, outgoing, misVars,
                   sorted_in, sorted_out, rngLog, written, iso1_calls, seqVars>>

\* rng.choice(["incoming", "outgoing"], size=k): all incoming, all outgoing, or
\* two incoming and then alternating
SmugglerDirs(k) ==
    { [n \in 1..k |-> "incoming"], [n \in 1..k |-> "outgoing"],
      [n \in 1..k |-> IF n = 1 \/ n % 2 = 0 THEN "incoming" ELSE "outgoing"] }

\* lines 463-465
SmugglerBegin ==
    /\ pc = "smuggler"
    /\ IF Len(smugglers) > 0
       THEN \E r \in [1..Len(smugglers) -> RandomSample] :
               /\ loop' = [NoLoop EXCEPT
                             !.active = ActiveIndices([i \in 1..Len(smugglers) |->
                                                          SmugglerActive(r[i])])]
               /\ rngLog' = Logged(rngLog, "smuggler")
               /\ pc' = "smuggler_vehicle"
       ELSE /\ pc' = "sort"
            /\ UNCHANGED <<loop, rngLog>>
    /\ UNCHANGED <<args, d, poolVars, in_target, out_target, incoming, outgoing,
                   extra_in_rows, extra_out_rows, misVars, sorted_in, sorted_out,
                   written, iso1_calls,
                   seqVars>>

\* lines 466-469
SmugglerVehicle ==
    /\ pc = "smuggler_vehicle"
    /\ IF loop.active = <<>>
       THEN /\ loop' = NoLoop
            /\ pc' = "sort"
       ELSE \E k \in SmugglerKSample : \E s \in [1..k -> SmugglerSecsSample] :
            \E dirs \in SmugglerDirs(k) :
               /\ loop' = [active |-> Tail(loop.active), v |-> Head(loop.active), k |-> k,
                           i |-> 0, secs |-> s, dirs |-> dirs]
               /\ pc' = "smuggler_event"
    /\ UNCHANGED <<args, d, poolVars, in_target, out_target, incoming, outgoing,
                   extra_in_rows, extra_out_rows, misVars, sorted_in, sorted_out, rngLog,
                   written, iso1_calls, seqVars>>

\* lines 470-485
SmugglerEvent ==
    /\ pc = "smuggler_event"
    /\ IF loop.i >= loop.k
       THEN /\ pc' = "smuggler_vehicle"
            /\ UNCHANGED <<loop, extra_in_rows, extra_out_rows>>
       ELSE /\ \E r \in RandomSample :
                 EmitEvent(smugglers, "smuggler", SmugglerDrop(r, args.missing_prob))
            /\ pc' = pc
    /\ UNCHANGED <<args, d, poolVars, in_target, out_target, incoming, outgoing, misVars,
                   sorted_in, sorted_out, rngLog, written, iso1_calls, seqVars>>

\* lines 487-493: the injected rows are appended and both frames sorted by ts
ConcatSort ==
    /\ pc = "sort"
    /\ incoming' \in SortValues(incoming \o extra_in_rows)
    /\ outgoing' \in SortValues(outgoing \o extra_out_rows)
    /\ sorted_in' = incoming'
    /\ sorted_out' = outgoing'
    /\ pc' = "misplace_in"
    /\ UNCHANGED <<args, d, poolVars, in_target, out_target, extra_in_rows, extra_out_rows,
                   loop, misVars, rngLog, written, iso1_calls, seqVars>>

-----------------------------------------------------------------------------
(* apply_ingest_misplacements, called on incoming and then on outgoing *)

OnIncoming == pc \in {"misplace_in", "swap_in"}

Cur == IF OnIncoming THEN incoming ELSE outgoing

SetCur(df) ==
    IF OnIncoming THEN incoming' = df /\ UNCHANGED outgoing
    ELSE outgoing' = df /\ UNCHANGED incoming

AfterMisplace == IF OnIncoming THEN "misplace_out" ELSE "iso1"

\* lines 244-249: the early return, or the draws of idx and offsets
MisplaceCall ==
    /\ pc \in {"misplace_in", "misplace_out"}
    /\ orig' = Cur
    /\ perm' = [p \in 1..Len(Cur) |-> p - 1]
    /\ IF MisplaceNoop(Cur, args.misplace_per_day, args.misplace_max_offset)
       THEN /\ idx' = <<>>
            /\ new_idx' = <<>>
            /\ pc' = AfterMisplace
            /\ UNCHANGED rngLog
       ELSE LET n == Min(args.misplace_per_day, Len(Cur))
            IN  \E ix \in IdxDraws(Len(Cur), n) :
                \E offsets \in [1..n -> OffsetDraws(args.misplace_max_offset)] :
                   /\ idx' = ix
                   /\ new_idx' = [t \in 1..n |-> Clip(ix[t] + offsets[t], 0, Len(Cur) - 1)]
                   /\ pc' = IF OnIncoming THEN "swap_in" ELSE "swap_out"
                   /\ rngLog' = Logged(rngLog, pc)
    /\ UNCHANGED <<args, d, poolVars, in_target, out_target, incoming, outgoing,
                   extra_in_rows, extra_out_rows, loop, sorted_in, sorted_out,
                   written, iso1_calls,
                   seqVars>>

\* lines 250-253: one turn of the loop over zip(idx, new_idx)
MisplaceSwap ==
    /\ pc \in {"swap_in", "swap_out"}
    /\ idx # <<>>
    /\ LET i == Head(idx)
           j == Head(new_idx)
       IN  IF i = j
           THEN UNCHANGED <<incoming, outgoing, perm>>
           ELSE /\ SetCur(SwapRows(Cur, i, j))
                /\ perm' = SwapRows(perm, i, j)
    /\ idx' = Tail(idx)
    /\ new_idx' = Tail(new_idx)
    /\ UNCHANGED <<args, pc, d, poolVars, in_target, out_target, extra_in_rows,
                   extra_out_rows, loop, orig, sorted_in, sorted_out, rngLog,
                   written, iso1_calls,
                   seqVars>>

\* line 254
MisplaceReturn ==
    /\ pc \in {"swap_in", "swap_out"}
    /\ idx = <<>>
    /\ pc' = AfterMisplace
    /\ UNCHANGED <<args, d, poolVars, in_target, out_target, incoming, outgoing,
                   extra_in_rows, extra_out_rows, loop, misVars, sorted_in, sorted_out,
                   rngLog, written, iso1_calls, seqVars>>

-----------------------------------------------------------------------------
(* main: the rest of the day *)

\* a rewriting that reaches the pools: frames that share their columns with the
\* pool they were taken from
ApplyIso1Aliased ==
    /\ pc = "iso1"
    /\ incoming' = apply_iso1_codes(incoming)
    /\ outgoing' = apply_iso1_codes(outgoing)
    /\ iso1_calls' = [incoming |-> iso1_calls.incoming + 1,
                      outgoing |-> iso1_calls.outgoing + 1]
    /\ commuters' = [i \in 1..Len(commuters) |-> Iso1Row(commuters[i])]
    /\ chilled' = [i \in 1..Len(chilled) |-> Iso1Row(chilled[i])]
    /\ smugglers' = [i \in 1..Len(smugglers) |-> Iso1Row(smugglers[i])]
    /\ pc' = "sink"
    /\ UNCHANGED <<args, d, weights, in_target, out_target, extra_in_rows, extra_out_rows,
                   loop, misVars, sorted_in, sorted_out, rngLog, written, seqVars>>

\* lines 617-618
ApplyIso1 ==
    /\ pc = "iso1"
    /\ incoming' = apply_iso1_codes(incoming)
    /\ outgoing' = apply_iso1_codes(outgoing)
    /\ iso1_calls' = [incoming |-> iso1_calls.incoming + 1,
                      outgoing |-> iso1_calls.outgoing + 1]
    /\ pc' = "sink"
    /\ UNCHANGED <<args, d, poolVars, in_target, out_target, extra_in_rows, extra_out_rows,
                   loop, misVars, sorted_in, sorted_out, rngLog, written, seqVars>>

\* lines 620-647: the two frames go to the sinks, and the loop goes on
WriteSinks ==
    /\ pc = "sink"
    /\ written' = written + 1
    /\ d' = d + 1
    /\ pc' = "day"
    /\ UNCHANGED <<args, poolVars, in_target, out_target, incoming, outgoing,
                   extra_in_rows, extra_out_rows, loop, misVars, sorted_in, sorted_out,
                   rngLog, iso1_calls, seqVars>>

Next ==
    \/ BuildCountryWeights
    \/ MakeStandoutPool
    \/ DayBegin
    \/ Finish
    \/ BaselineIncoming
    \/ BaselineOutgoing
    \/ CommuterInject
    \/ ChilledBegin
    \/ ChilledVehicle
    \/ ChilledEvent
    \/ SmugglerBegin
    \/ SmugglerVehicle
    \/ SmugglerEvent
    \/ ConcatSort
    \/ MisplaceCall
    \/ MisplaceSwap
    \/ MisplaceReturn
    \/ ApplyIso1
    \/ WriteSinks

Spec == Init /\ [][Next]_vars

-----------------------------------------------------------------------------
(* apply_ingest_misplacements on any frame *)

\* rows of a frame handed to apply_ingest_misplacements
RowSample ==
    { Row(ts, Identity("DE", random_plate("DE", "AB", 42), "passenger_car", "white", "VW"),
          "Basel", "baseline", 0) : ts \in {0, DaySpan} }

FrameSample == UNION { [1..n -> RowSample] : n \in 0..MaxLen }

InitMisplace ==
    /\ InitCommon
    /\ args \in UnitArgs((-1)..MaxPerDay, (-1)..MaxOffset)
    /\ pc = "misplace_in"
    /\ incoming \in FrameSample
    /\ outgoing = <<>>
    /\ seq_n = 0

NextMisplace ==
    \/ MisplaceCall
    \/ MisplaceSwap
    \/ MisplaceReturn

SpecMisplace == InitMisplace /\ [][NextMisplace]_vars

-----------------------------------------------------------------------------
(* sequential_seconds on any n and any gaps *)

InitSeq ==
    /\ InitCommon
    /\ args \in UnitArgs({0}, {0})
    /\ pc = "seq_call"
    /\ incoming = <<>>
    /\ outgoing = <<>>
    /\ seq_n \in (-1)..MaxSeqLen

SeqCall ==
    /\ pc = "seq_call"
    /\ \E g \in [1..seq_n -> 0..MaxGap] :
          /\ gaps' = g
          /\ secs' = sequential_seconds(seq_n, g)
    /\ pc' = "seq_done"
    /\ UNCHANGED <<args, d, poolVars, in_target, out_target, incoming, outgoing,
                   extra_in_rows, extra_out_rows, loop, misVars, sorted_in, sorted_out,
                   rngLog, written, iso1_calls, seq_n>>

NextSeq == SeqCall

SpecSeq == InitSeq /\ [][NextSeq]_vars

-----------------------------------------------------------------------------
(* Properties *)

\* the frame apply_ingest_misplacements is working on, or has just returned
MisplacedFrame == IF pc \in {"swap_in", "misplace_out"} THEN incoming ELSE outgoing

InMisplacement == pc \in {"swap_in", "misplace_out", "swap_out", "iso1"}

\* the number of swaps of the current call
SwapCount == Min(args.misplace_per_day, Len(orig))

CallSwaps ==
    ~MisplaceNoop(orig, args.misplace_per_day, args.misplace_max_offset)

Displacement(p) == Abs(perm[p] - (p - 1))

\* C1: after every turn of the swap loop and at the return, the frame has the
\* number of rows and the multiset of rows of the frame that was passed in; it
\* is that frame with its positions permuted
C1_RowsPreserved ==
    InMisplacement =>
        /\ Len(MisplacedFrame) = Len(orig)
        /\ SameRows(MisplacedFrame, orig)
        /\ Len(perm) = Len(orig)
        /\ {perm[p] : p \in 1..Len(perm)} = 0..(Len(orig) - 1)
        /\ \A p \in 1..Len(orig) : MisplacedFrame[p] = orig[perm[p] + 1]

\* C1 witness: a call returned after swaps that overlap (a row moved twice)
C1_Witness ==
    /\ pc = "misplace_out"
    /\ incoming # orig
    /\ \E p \in 1..Len(perm) : perm[p] # p - 1 /\ perm[perm[p] + 1] # p - 1

\* C2: with misplace_per_day = 0, with misplace_max_offset <= 0 or on an empty
\* frame, generate_day_events returns the frames as the sort step left them,
\* in non-decreasing ts order
C2_NoMisplacementSorted ==
    pc = "iso1" =>
        /\ (args.misplace_per_day = 0 \/ args.misplace_max_offset <= 0 \/ sorted_in = <<>>)
              => (incoming = sorted_in /\ IsSorted(incoming))
        /\ (args.misplace_per_day = 0 \/ args.misplace_max_offset <= 0 \/ sorted_out = <<>>)
              => (outgoing = sorted_out /\ IsSorted(outgoing))

\* C2 witness: misplace_per_day = 0 on a day where the sort step had to move an
\* injected row in front of a baseline row
C2_Witness ==
    /\ pc = "iso1"
    /\ args.misplace_per_day = 0
    /\ \E i \in 1..Len(incoming) : \E j \in 1..Len(extra_in_rows) :
          incoming[i].src = "baseline" /\ extra_in_rows[j].ts < incoming[i].ts

TimeOfDay(ts) == ts % DaySeconds

CommuterRowsIn(df) == {i \in 1..Len(df) : df[i].src = "commuter"}

\* C3: on a weekday with missing_prob = 0 the commuter step adds one incoming
\* row in [05:00, 10:00) and one outgoing row in [15:00, 20:00) per commuter
C3_AllCommutersInjected ==
    (pc = "chilled" /\ Weekday(args.start_wd, d) \in 0..4 /\ args.missing_prob = 0) =>
        /\ Cardinality(CommuterRowsIn(incoming)) = Len(commuters)
        /\ Cardinality(CommuterRowsIn(outgoing)) = Len(commuters)
        /\ \A i \in CommuterRowsIn(incoming) :
              TimeOfDay(incoming[i].ts) >= 5 * 3600 /\ TimeOfDay(incoming[i].ts) < 10 * 3600
        /\ \A i \in CommuterRowsIn(outgoing) :
              TimeOfDay(outgoing[i].ts) >= 15 * 3600 /\ TimeOfDay(outgoing[i].ts) < 20 * 3600

InDay ==
    pc \in {"baseline_in", "baseline_out", "commuter", "chilled", "chilled_vehicle",
            "chilled_event", "smuggler", "smuggler_vehicle", "smuggler_event", "sort",
            "misplace_in", "swap_in", "misplace_out", "swap_out", "iso1", "sink"}

\* C4: on a Saturday or Sunday no row of either frame comes from the commuter
\* injection, whatever the pool and missing_prob
C4_NoWeekendCommuters ==
    (InDay /\ Weekday(args.start_wd, d) \in {5, 6}) =>
        /\ CommuterRowsIn(incoming) = {}
        /\ CommuterRowsIn(outgoing) = {}

\* C4 witness: a weekend day's frames are complete, the pool has commuters and
\* the incoming frame has rows
C4_Witness ==
    /\ pc = "iso1"
    /\ Weekday(args.start_wd, d) \in {5, 6}
    /\ Len(commuters) > 0
    /\ Len(incoming) > 0

\* C5: sequential_seconds returns n integers of 0..86399 in non-decreasing
\* order, nothing for n = 0, and n zeros when the gaps sum to 0
C5_SequentialSeconds ==
    pc = "seq_done" =>
        /\ Len(secs) = Max(seq_n, 0)
        /\ \A i \in 1..Len(secs) : secs[i] \in 0..86399
        /\ \A i \in 1..(Len(secs) - 1) : secs[i] <= secs[i + 1]
        /\ (seq_n = 0 => secs = <<>>)
        /\ (SumSeq(gaps) = 0 => \A i \in 1..Len(secs) : secs[i] = 0)

\* C5 witness: a call with three or more gaps, the first of them 0, that
\* returned a sequence ending at 86399
C5_Witness ==
    /\ pc = "seq_done"
    /\ seq_n >= 3
    /\ gaps[1] = 0
    /\ secs[1] < secs[2]
    /\ secs[seq_n] = 86399

\* the place of a phase in the order spec section 5 gives (the draws of the day's
\* targets have none)
CanonRank(phase) ==
    CASE phase = "weights" -> 0
      [] phase \in {"pool_commuters.country", "pool_commuters.vehicles"} -> 1
      [] phase \in {"pool_chilled.country", "pool_chilled.vehicles"} -> 2
      [] phase \in {"pool_smugglers.country", "pool_smugglers.vehicles"} -> 3
      [] phase = "baseline_in" -> 4
      [] phase = "baseline_out" -> 5
      [] phase = "commuter" -> 6
      [] phase = "chilled" -> 7
      [] phase = "smuggler" -> 8
      [] phase = "misplace_in" -> 9
      [] phase = "misplace_out" -> 10
      [] OTHER -> -1

\* C7 as stated: the generator is consumed phase by phase in the canonical
\* order, no phase before an earlier one and no other draw in between
C7_CanonicalOrder ==
    \A t \in 1..Len(rngLog) :
        /\ CanonRank(rngLog[t]) >= 0
        /\ t > 1 =>
              \/ CanonRank(rngLog[t - 1]) <= CanonRank(rngLog[t])
              \/ rngLog[t] = "baseline_in" /\ CanonRank(rngLog[t - 1]) >= 5

\* the place of a phase in the order the program makes its calls
CallRank(phase) ==
    CASE phase = "weights" -> 0
      [] phase = "pool_commuters.country" -> 1
      [] phase = "pool_chilled.country" -> 2
      [] phase = "pool_smugglers.country" -> 3
      [] phase = "pool_commuters.vehicles" -> 4
      [] phase = "pool_chilled.vehicles" -> 5
      [] phase = "pool_smugglers.vehicles" -> 6
      [] phase = "jitter" -> 7
      [] phase = "baseline_in" -> 8
      [] phase = "baseline_out" -> 9
      [] phase = "commuter" -> 10
      [] phase = "chilled" -> 11
      [] phase = "smuggler" -> 12
      [] phase = "misplace_in" -> 13
      [] phase = "misplace_out" -> 14

\* the index of the day the t-th entry of the log belongs to
DayOfCall(t) == Cardinality({u \in 1..t : rngLog[u] = "jitter"}) - 1

\* C7 amended: country weights; the three pools' country draws and then the
\* three pools' plates, colours and brands (commuters, chilled, smugglers each
\* time); then per day the two target draws, baseline incoming, baseline
\* outgoing, and in this order those of commuter (weekdays only), chilled,
\* smuggler, misplacement incoming, misplacement outgoing that draw at all
C7_CallOrder ==
    \A t \in 1..Len(rngLog) :
        /\ t = 1 => rngLog[t] = "weights"
        /\ t > 1 =>
              LET a == CallRank(rngLog[t - 1])
                  b == CallRank(rngLog[t])
              IN  IF b <= 9
                  THEN b = a + 1 \/ (b = 7 /\ a >= 9)
                  ELSE a >= 9 /\ a < b
        /\ rngLog[t] = "commuter" => Weekday(args.start_wd, DayOfCall(t)) \in 0..4

\* C7 witness: a run is over in which both misplacement calls drew
C7_Witness ==
    /\ pc = "done"
    /\ \E t \in 1..Len(rngLog) : rngLog[t] = "misplace_in"
    /\ \E t \in 1..Len(rngLog) : rngLog[t] = "misplace_out"

\* C8 as stated: when the swap loop is over no row is further than max_offset
\* from its position in the input frame
C8_WithinMaxOffset ==
    (pc = "misplace_out" /\ CallSwaps) =>
        \A p \in 1..Len(perm) : Displacement(p) <= args.misplace_max_offset

\* C8 amended: every swap exchanges two positions of the frame at most
\* max_offset apart, so that after t swaps no row is further than
\* t * max_offset from its input position (n * max_offset at the return)
C8_SwapsWithinMaxOffset ==
    (InMisplacement /\ CallSwaps) =>
        /\ Len(idx) = Len(new_idx)
        /\ \A t \in 1..Len(idx) :
              /\ idx[t] \in 0..(Len(orig) - 1)
              /\ new_idx[t] \in 0..(Len(orig) - 1)
              /\ Abs(new_idx[t] - idx[t]) <= args.misplace_max_offset
        /\ \A p \in 1..Len(perm) :
              Displacement(p) <= (SwapCount - Len(idx)) * args.misplace_max_offset

\* C8 witness: the loop is over and a row is further than max_offset from its
\* input position
C8_Witness ==
    /\ pc = "misplace_out"
    /\ CallSwaps
    /\ \E p \in 1..Len(perm) : Displacement(p) > args.misplace_max_offset

\* the rows of the day that chilled vehicle v has contributed so far
ChilledRowsOf(v) ==
    LET rows == extra_in_rows \o extra_out_rows
    IN  Cardinality({i \in 1..Len(rows) : rows[i].src = "chilled" /\ rows[i].vid = v})

\* C9 as stated: a chilled vehicle schedules 2 to 5 events and contributes at
\* most 5 rows to the day
C9_AtMostFiveEvents ==
    /\ pc = "chilled_event" => loop.k \in 2..5
    /\ \A v \in 1..Len(chilled) : ChilledRowsOf(v) <= 5

\* the row list grew by one row of the chilled vehicle v, or not at all
GrewBy(old, new, v) ==
    \/ new = old
    \/ /\ Len(new) = Len(old) + 1
       /\ SubSeq(new, 1, Len(old)) = old
       /\ new[Len(new)].src = "chilled"
       /\ new[Len(new)].vid = v
       /\ new[Len(new)].license_plate = chilled[v].license_plate

ChilledStep ==
    /\ pc' = "chilled_event" => loop'.k \in 2..6
    /\ (pc = "chilled_event" /\ loop.i < loop.k) =>
          /\ loop'.i = loop.i + 1
          /\ IF loop.i % 2 = 0
             THEN extra_out_rows' = extra_out_rows
                    /\ GrewBy(extra_in_rows, extra_in_rows', loop.v)
             ELSE extra_in_rows' = extra_in_rows
                    /\ GrewBy(extra_out_rows, extra_out_rows', loop.v)
    /\ \A v \in 1..Len(chilled) : ChilledRowsOf(v)' <= 6

\* C9 amended: an active chilled vehicle schedules k events with 2 <= k <= 6
\* (rng.integers(2, 7)), so it contributes at most 6 rows to the day; the event
\* of index i goes to the incoming list when i is even and to the outgoing
\* list when i is odd, whichever events are dropped
C9_ChilledSchedule == [][ChilledStep]_vars

\* C9 witness: a vehicle's six events are done, one of them was dropped, and
\* the outgoing list has more of its rows than the incoming list
C9_Witness ==
    /\ pc = "chilled_event"
    /\ loop.k = 6
    /\ loop.i = 6
    /\ ChilledRowsOf(loop.v) = 5
    /\ Len(extra_out_rows) = 3

\* C10 as stated: the sort is stable, rows of equal ts keep the order they
\* have in the concatenation
C10_StableSort ==
    [][pc = "sort" =>
          /\ incoming' = StableSort(incoming \o extra_in_rows)
          /\ outgoing' = StableSort(outgoing \o extra_out_rows)]_vars

\* C10 amended: the sort puts each frame's rows, baseline and injected, in
\* non-decreasing ts order and keeps every row; rows of equal ts come out in
\* any relative order
C10_SortedPermutation ==
    [][pc = "sort" =>
          /\ IsSorted(incoming')
          /\ IsSorted(outgoing')
          /\ SameRows(incoming', incoming \o extra_in_rows)
          /\ SameRows(outgoing', outgoing \o extra_out_rows)]_vars

\* C10 witness: the sort is done and an injected row stands right before a
\* baseline row of the same ts
C10_Witness ==
    /\ pc = "misplace_in"
    /\ \E i \in 1..(Len(incoming) - 1) :
          /\ incoming[i].ts = incoming[i + 1].ts
          /\ incoming[i].src # "baseline"
          /\ incoming[i + 1].src = "baseline"

\* the one-character code of a country: a code of length 1 as it is, the
\* table's entry for a code of the table, the first character of any other
Iso1Code(c) ==
    IF Len(c) = 1 THEN c
    ELSE IF c \in DOMAIN ISO1_MAP THEN ISO1_MAP[c]
    ELSE FirstChar(c)

\* df2 is df with the country and the plate's prefix replaced by the code, and
\* nothing else: same length, same order, every other column as it was
Iso1Rewritten(df, df2) ==
    /\ Len(df2) = Len(df)
    /\ \A i \in 1..Len(df) :
          /\ df2[i].country_of_registration = Iso1Code(df[i].country_of_registration)
          /\ Head(df2[i].license_plate) = Iso1Code(df[i].country_of_registration)
          /\ Tail(df2[i].license_plate) = Tail(df[i].license_plate)
          /\ df2[i].ts = df[i].ts
          /\ df2[i].vehicle_type = df[i].vehicle_type
          /\ df2[i].colour = df[i].colour
          /\ df2[i].brand = df[i].brand
          /\ df2[i].location_of_crossing = df[i].location_of_crossing
          /\ df2[i].src = df[i].src
          /\ df2[i].vid = df[i].vid

\* the rows of df still have the two-letter country they were generated with
Unrewritten(df) ==
    \A i \in 1..Len(df) :
        /\ df[i].country_of_registration \in EURO_COUNTRIES
        /\ Head(df[i].license_plate) = df[i].country_of_registration

OneCall == [incoming |-> 1, outgoing |-> 1]

C11_Step ==
    /\ (InDay /\ pc # "sink") =>
          (iso1_calls = NoCalls /\ Unrewritten(incoming) /\ Unrewritten(outgoing))
    /\ (iso1_calls' # iso1_calls /\ iso1_calls' # NoCalls) =>
          /\ pc = "iso1"
          /\ iso1_calls' = OneCall
          /\ IsSorted(sorted_in) /\ SameRows(incoming, sorted_in)
          /\ IsSorted(sorted_out) /\ SameRows(outgoing, sorted_out)
          /\ outgoing = [p \in 1..Len(orig) |-> orig[perm[p] + 1]]
          /\ Iso1Rewritten(incoming, incoming')
          /\ Iso1Rewritten(outgoing, outgoing')
    /\ written' # written =>
          (iso1_calls = OneCall /\ incoming' = incoming /\ outgoing' = outgoing)
    /\ to_iso1("D") = "D"
    /\ to_iso1("XK") = "X"

WithinDay(df, day) ==
    \A i \in 1..Len(df) :
        df[i].ts >= day * 86400 /\ df[i].ts <= day * 86400 + 86399

\* new is old, or old with one more row at its end
SameOrOneMore(old, new) ==
    \/ new = old
    \/ Len(new) = Len(old) + 1 /\ SubSeq(new, 1, Len(old)) = old

IsPrefix(old, new) == Len(old) <= Len(new) /\ SubSeq(new, 1, Len(old)) = old

C12_Step ==
    /\ InDay =>
          /\ WithinDay(incoming, d) /\ WithinDay(outgoing, d)
          /\ WithinDay(extra_in_rows, d) /\ WithinDay(extra_out_rows, d)
    /\ pc = "day" =>
          (pc' = "done" \/ (incoming' = <<>> /\ outgoing' = <<>> /\ extra_in_rows' = <<>>
                             /\ extra_out_rows' = <<>>))
    /\ pc \in {"baseline_in", "baseline_out", "commuter"} =>
          /\ IsPrefix(incoming, incoming') /\ IsPrefix(outgoing, outgoing')
          /\ UNCHANGED <<extra_in_rows, extra_out_rows>>
    /\ pc \in {"chilled_event", "smuggler_event"} =>
          /\ UNCHANGED <<incoming, outgoing>>
          /\ \/ UNCHANGED <<extra_in_rows, extra_out_rows>>
             \/ /\ SameOrOneMore(extra_in_rows, extra_in_rows')
                /\ SameOrOneMore(extra_out_rows, extra_out_rows')
                /\ Len(extra_in_rows') + Len(extra_out_rows')
                      = Len(extra_in_rows) + Len(extra_out_rows) + 1
    /\ pc = "sort" =>
          /\ SameRows(incoming', incoming \o extra_in_rows)
          /\ SameRows(outgoing', outgoing \o extra_out_rows)
    /\ pc \in {"misplace_in", "swap_in", "misplace_out", "swap_out", "iso1", "sink"} =>
          /\ Len(incoming') = Len(incoming) /\ Len(outgoing') = Len(outgoing)
          /\ \A i \in 1..Len(incoming) : \E j \in 1..Len(incoming) :
                incoming'[j].ts = incoming[i].ts
          /\ \A i \in 1..Len(outgoing) : \E j \in 1..Len(outgoing) :
                outgoing'[j].ts = outgoing[i].ts

\* C12: on every day, every row of the incoming and of the outgoing frame and
\* every injected row waiting in extra_in_rows / extra_out_rows has its ts
\* between the day's start and 86399 seconds later, before and after the
\* misplacement; the day starts with empty frames, an emitted event is appended
\* to one of the two streams only, and the sort, the misplacement and the
\* rewriting neither drop nor duplicate a row nor move it to the other stream
C12_RowsWithinDay == [][C12_Step]_vars

\* C12 witness: the second day's frames are ready for the sinks and hold a
\* smuggler row of the day's last second and a row of another second
C12_Witness ==
    /\ pc = "sink"
    /\ d = 1
    /\ \E i \in 1..Len(incoming) :
          incoming[i].src = "smuggler" /\ incoming[i].ts = 86400 + 86399
    /\ \E i \in 1..Len(outgoing) : outgoing[i].src = "smuggler"

\* the pool an injected row was taken from
PoolOf(src) ==
    CASE src = "commuter" -> commuters
      [] src = "chilled" -> chilled
      [] src = "smuggler" -> smugglers

\* row r carries the identity of the member of its pool it was emitted for:
\* as it is in the pool, or with the country and the plate's prefix rewritten
\* for a row of a frame main has rewritten
CarriesIdentity(r, rewritten) ==
    /\ r.vid \in 1..Len(PoolOf(r.src))
    /\ LET m == PoolOf(r.src)[r.vid]
       IN  /\ r.vehicle_type = m.vehicle_type
           /\ r.colour = m.colour
           /\ r.brand = m.brand
           /\ IF rewritten
              THEN /\ r.country_of_registration = Iso1Code(m.country_of_registration)
                   /\ r.license_plate
                         = <<Iso1Code(m.country_of_registration)>> \o Tail(m.license_plate)
              ELSE /\ r.country_of_registration = m.country_of_registration
                   /\ r.license_plate = m.license_plate

InjectedCarryIdentity(df, rewritten) ==
    \A i \in 1..Len(df) : df[i].src # "baseline" => CarriesIdentity(df[i], rewritten)

\* a pool as make_standout_pool builds it: n members of the type vtype, each
\* with a two-letter country that is also its plate's prefix
WellFormedPool(pool, n, vtype) ==
    /\ Len(pool) = n
    /\ \A i \in 1..n :
          /\ pool[i].vehicle_type = vtype
          /\ pool[i].country_of_registration \in EURO_COUNTRIES
          /\ Head(pool[i].license_plate) = pool[i].country_of_registration

C13_Step ==
    /\ pc' = "pool" => pc = "weights"
    /\ pc \notin {"weights", "pool"} =>
          /\ commuters' = commuters /\ chilled' = chilled /\ smugglers' = smugglers
          /\ WellFormedPool(commuters, args.n_commuters, "passenger_car")
          /\ WellFormedPool(chilled, args.n_chilled, "truck")
          /\ WellFormedPool(smugglers, args.n_smugglers, "delivery_van")
    /\ InDay =>
          /\ InjectedCarryIdentity(incoming, pc = "sink")
          /\ InjectedCarryIdentity(outgoing, pc = "sink")
          /\ InjectedCarryIdentity(extra_in_rows, FALSE)
          /\ InjectedCarryIdentity(extra_out_rows, FALSE)

\* C13: the three pools are built once, before the first day, and no later
\* step changes them: not the injections, not the misplacement swaps, not the
\* rewriting of the day's frames; on every day every injected row has the
\* country, plate, type, colour and brand its pool member was created with
\* (the frames main rewrites hold the rewritten country and plate prefix)
C13_PoolsNeverChange == [][C13_Step]_vars

\* C13 witness: on the second day, after the first day's frames were rewritten
\* and written, a commuter row is injected again from a pool member that still
\* has its two-letter country
C13_Witness ==
    /\ pc = "iso1"
    /\ d = 1
    /\ written = 1
    /\ \E i \in 1..Len(incoming) :
          /\ incoming[i].src = "commuter"
          /\ incoming[i].country_of_registration = "DE"
          /\ commuters[incoming[i].vid].license_plate = <<"DE", "AB", 42>>

====
